---- MODULE Spec2Model ----
(***************************************************************************)
(* Model of the nursing-report backend (backend/app): the report store,    *)
(* the audio storage and the voice-report pipeline of                      *)
(* ReportService.create_voice_report / VoiceService.process_voice_report,  *)
(* together with the report operations that run concurrently with it       *)
(* (create_text_report, get_report, update_report, delete_report).         *)
(*                                                                         *)
(* Every request runs in its own AsyncSession (get_db); the variable db    *)
(* holds the committed rows of table "reports", files the content of the   *)
(* upload directory.  A voice request suspends at its awaits, so its       *)
(* steps interleave with the other requests.                               *)
(***************************************************************************)
EXTENDS Integers, Sequences, FiniteSets, TLC

(***************************************************************************)
(* Bounds of the model                                                     *)
(***************************************************************************)
MaxVoice == 1        \* voice-report requests issued
MaxReports == 2      \* report identifiers ever generated
MaxOps == 2          \* update_report / delete_report requests issued
MaxSegments == 2     \* segments in one engine result
MaxProbeSegments == 3   \* segments in one probed engine result
MaxRegister == 2     \* register requests issued
MaxWords == 25       \* words of a probed text
MaxWordLen == 5      \* letters of a word of a probed text

(***************************************************************************)
(* Program constants                                                       *)
(***************************************************************************)
MAX_FILE_SIZE == 10 * 1024 * 1024
CHUNK_SIZE == 1024 * 1024
\* Settings.MAX_UPLOAD_SIZE (core/config.py), the default; the services do not read it
MAX_UPLOAD_SIZE == 10485760
DEFAULT_CONFIDENCE == 80          \* 0.8, in hundredths
DEFAULT_NO_SPEECH == 50           \* 0.5, in hundredths
ALLOWED_FORMATS == {"wav", "mp3", "m4a", "ogg", "webm", "flac"}
HTTP_201 == 201
HTTP_200 == 200
HTTP_401 == 401
HTTP_400 == 400
HTTP_403 == 403
HTTP_404 == 404
HTTP_500 == 500

(***************************************************************************)
(* Optional values: None is the empty tuple, a present value v is <<v>>.   *)
(***************************************************************************)
None == <<>>
Some(v) == <<v>>
IsSet(o) == o # None
Val(o) == o[1]

(***************************************************************************)
(* Users.  User.is_admin is a method; the services test the attribute      *)
(* user.is_admin without calling it, and a bound method is always true.    *)
(***************************************************************************)
Users == {"nurse1", "nurse2", "admin"}
\* the users who create reports; nurse2 only acts on the reports of others
Authors == {"nurse1", "admin"}
Role(u) == IF u = "admin" THEN "admin" ELSE "nurse"
is_admin(u) == Role(u) = "admin"
is_admin_attr(u) == TRUE

VoiceReqs == 1..MaxVoice
ReportIds == 1..MaxReports

(***************************************************************************)
(* Strings the code computes on are sequences of one-character strings.    *)
(***************************************************************************)
UPPER == <<"A","B","C","D","E","F","G","H","I","J","K","L","M",
           "N","O","P","Q","R","S","T","U","V","W","X","Y","Z">>
LOWER == <<"a","b","c","d","e","f","g","h","i","j","k","l","m",
           "n","o","p","q","r","s","t","u","v","w","x","y","z">>
LowerChar(c) ==
  IF \E i \in 1..Len(UPPER) : UPPER[i] = c
  THEN LOWER[CHOOSE i \in 1..Len(UPPER) : UPPER[i] = c]
  ELSE c
\* str.lower()
lower(s) == [i \in 1..Len(s) |-> LowerChar(s[i])]
\* s.split(".")[-1]: the text after the last dot, the whole text without one
LastDot(s) ==
  IF \E i \in 1..Len(s) : s[i] = "."
  THEN CHOOSE i \in 1..Len(s) : s[i] = "." /\ \A j \in (i+1)..Len(s) : s[j] # "."
  ELSE 0
split_last(s) == SubSeq(s, LastDot(s) + 1, Len(s))
\* file.filename.split(".")[-1].lower()
file_extension(filename) == lower(split_last(filename))
AllowedSeqs == { <<"w","a","v">>, <<"m","p","3">>, <<"m","4","a">>,
                 <<"o","g","g">>, <<"w","e","b","m">>, <<"f","l","a","c">> }

(***************************************************************************)
(* Uploads: the filename, UploadFile.size (None when not known) and the    *)
(* number of bytes the stream delivers.                                    *)
(***************************************************************************)
Upload(filename, size, data) == [filename |-> filename, size |-> size, data |-> data]
Uploads ==
  { Upload(<<"a",".","W","A","V">>, Some(CHUNK_SIZE + 7), CHUNK_SIZE + 7),
    Upload(<<"a",".","W","A","V">>, None, MAX_FILE_SIZE + 1),
    Upload(<<"a",".","W","A","V">>, Some(MAX_FILE_SIZE + 1), MAX_FILE_SIZE + 1),
    Upload(<<"a",".","t","x","t">>, Some(CHUNK_SIZE + 7), CHUNK_SIZE + 7) }

\* a variant that also refuses a file of exactly the maximum size
validate_audio_file_strict(file) ==
  IF file_extension(file.filename) \notin AllowedSeqs
  THEN Some([status_code |-> HTTP_400, kind |-> "InvalidFormat"])
  ELSE IF IsSet(file.size) /\ Val(file.size) # 0 /\ Val(file.size) >= MAX_FILE_SIZE
  THEN Some([status_code |-> HTTP_400, kind |-> "FileTooLarge"])
  ELSE None
\* VoiceService.validate_audio_file: the error it raises, None when it passes
validate_audio_file(file) ==
  IF file_extension(file.filename) \notin AllowedSeqs
  THEN Some([status_code |-> HTTP_400, kind |-> "InvalidFormat"])
  ELSE IF IsSet(file.size) /\ Val(file.size) # 0 /\ Val(file.size) > MAX_FILE_SIZE
  THEN Some([status_code |-> HTTP_400, kind |-> "FileTooLarge"])
  ELSE None

(***************************************************************************)
(* VoiceService.save_audio_file.  The loop reads chunks of at most         *)
(* CHUNK_SIZE bytes until an empty read and adds up what it wrote.  An I/O *)
(* error while chunk k+1 is written leaves the file with k chunks.         *)
(***************************************************************************)
Min(a, b) == IF a < b THEN a ELSE b
\* a variant that reads the rest of the stream in one piece
read_whole(remaining) == remaining
\* await file.read(1024 * 1024): the next chunk of a stream of remaining bytes
read(remaining) == Min(CHUNK_SIZE, remaining)
RECURSIVE save_loop(_, _, _)
save_loop(remaining, file_size, fault) ==
  LET chunk == read(remaining) IN
  IF chunk = 0 \/ fault = Some(0)
  THEN file_size
  ELSE save_loop(remaining - chunk, file_size + chunk,
                 IF IsSet(fault) THEN Some(Val(fault) - 1) ELSE None)
NChunks(n) == (n + CHUNK_SIZE - 1) \div CHUNK_SIZE
\* the I/O faults of one save: none, or the write of the last chunk raises
\* after Val(fault) chunks were written
IoFaults(file) ==
  {None} \cup { Some(k) : k \in {NChunks(file.data) - 1} \cap Nat }
\* f"{report_id}_{timestamp}.{file_extension}" under upload_dir
\* a variant that names the file by the time and the extension only
FilePathByTime(file, report_id, timestamp) ==
  [report_id |-> 0, timestamp |-> timestamp,
   ext |-> file_extension(file.filename)]
\* a variant that names the file by the uploading second and the name the
\* client gave it
FilePathByUpload(file, report_id, timestamp) ==
  [report_id |-> 0, timestamp |-> timestamp, ext |-> lower(file.filename)]
\* save_audio_file, lines 116-121: "{report_id}_{timestamp}.{extension}"
FilePath(file, report_id, timestamp) ==
  [report_id |-> report_id, timestamp |-> timestamp,
   ext |-> file_extension(file.filename)]
\* a variant that swallows the I/O error and reports what was written
save_audio_file_quiet(file, report_id, timestamp, fault) ==
  LET path == FilePath(file, report_id, timestamp)
      written == save_loop(file.data, 0, fault)
  IN [raised |-> FALSE,
      stored |-> [path |-> path, size |-> written, complete |-> ~IsSet(fault)],
      file_info |-> [file_path |-> path, file_size |-> written,
                     file_extension |-> file_extension(file.filename)]]
\* save_audio_file, lines 115-134
save_audio_file(file, report_id, timestamp, fault) ==
  LET path == FilePath(file, report_id, timestamp)
      written == save_loop(file.data, 0, fault)
  IN [raised |-> IsSet(fault),
      stored |-> [path |-> path, size |-> written, complete |-> ~IsSet(fault)],
      file_info |-> [file_path |-> path, file_size |-> written,
                     file_extension |-> file_extension(file.filename)]]

(***************************************************************************)
(* VoiceService.transcribe_audio.  Probabilities and confidences are in    *)
(* hundredths, times in hundredths of a second.  An engine result is the   *)
(* raw text and the list of segments; a segment may carry no               *)
(* no_speech_prob (the code then takes 0.5).                               *)
(***************************************************************************)
RawTexts == { <<" ">>,
              <<" ","p","a","t","i","e","n","t"," ","s","t","a","b","l","e"," ">> }
RECURSIVE lstrip(_)
lstrip(s) == IF s # <<>> /\ Head(s) = " " THEN lstrip(Tail(s)) ELSE s
RECURSIVE rstrip(_)
rstrip(s) == IF s # <<>> /\ s[Len(s)] = " " THEN rstrip(SubSeq(s, 1, Len(s) - 1)) ELSE s
strip(s) == rstrip(lstrip(s))

NoSpeechProbs == {None, Some(0), Some(100)}
SegmentEnds == {250}
Segments == [no_speech_prob : NoSpeechProbs, end : SegmentEnds]
RECURSIVE SeqsUpTo(_, _)
SeqsUpTo(S, n) ==
  IF n = 0 THEN { <<>> }
  ELSE LET shorter == SeqsUpTo(S, n - 1) IN
       shorter \cup { Append(q, x) : q \in { t \in shorter : Len(t) = n - 1 }, x \in S }
EngineResults == [text : RawTexts, segments : SeqsUpTo(Segments, MaxSegments)]

\* s.get("no_speech_prob", 0.5)
no_speech_of(seg) ==
  IF IsSet(seg.no_speech_prob) THEN Val(seg.no_speech_prob) ELSE DEFAULT_NO_SPEECH
RECURSIVE sum_no_speech(_)
sum_no_speech(segments) ==
  IF segments = <<>> THEN 0
  ELSE no_speech_of(Head(segments)) + sum_no_speech(Tail(segments))
\* round(a / n) to the nearest integer, ties to the even one
RoundDiv(a, n) ==
  LET q == a \div n
      r == a % n
  IN IF 2 * r < n THEN q
     ELSE IF 2 * r > n THEN q + 1
     ELSE IF q % 2 = 0 THEN q ELSE q + 1
\* a variant that does not divide the sum by the number of segments
confidence_undivided(segments) ==
  IF segments # <<>>
  THEN 100 - sum_no_speech(segments)
  ELSE DEFAULT_CONFIDENCE
\* a variant that cuts the digits after the second decimal instead of rounding
confidence_truncated(segments) ==
  IF segments # <<>>
  THEN (100 * Len(segments) - sum_no_speech(segments)) \div Len(segments)
  ELSE DEFAULT_CONFIDENCE
\* round(1.0 - sum(...) / len(segments), 2), or 0.8 without segments
confidence_of(segments) ==
  IF segments # <<>>
  THEN RoundDiv(100 * Len(segments) - sum_no_speech(segments), Len(segments))
  ELSE DEFAULT_CONFIDENCE
\* VoiceService._get_audio_duration_from_segments
duration_of(segments) ==
  IF segments = <<>> THEN None
  ELSE LET duration == segments[Len(segments)].end IN
       IF duration # 0 THEN Some(duration) ELSE None
transcribe_audio(result) ==
  [text |-> strip(result.text),
   confidence |-> confidence_of(result.segments),
   duration |-> duration_of(result.segments),
   segments_count |-> Len(result.segments)]

\* What the engine does on a call: self.model.transcribe raises, or returns
\* a result; a result may lack the key "text" (result["text"] then raises
\* KeyError) or hold no string under it (.strip() raises AttributeError).
ModelErrors == {"RuntimeError", "FileNotFoundError"}
NoText == {"KeyError", "AttributeError"}
EngineOutcomes ==
  { [raises |-> Some(e), result |-> None] : e \in ModelErrors \cup NoText }
    \cup { [raises |-> None, result |-> Some(result)] : result \in EngineResults }
\* a variant whose handler catches the errors of the model call only
except_RuntimeError(e) ==
  IF e \in ModelErrors
  THEN [status_code |-> HTTP_500, kind |-> "TranscriptionFailed"]
  ELSE [status_code |-> HTTP_500, kind |-> e]
\* transcribe_audio, lines 196-201: except Exception raises HTTPException(500)
except_Exception(e) == [status_code |-> HTTP_500, kind |-> "TranscriptionFailed"]
\* transcribe_audio, lines 158-201: the try block and its handler
try_transcribe_audio(outcome) ==
  IF IsSet(outcome.raises)
  THEN [error |-> Some(except_Exception(Val(outcome.raises))), transcription |-> None]
  ELSE [error |-> None, transcription |-> Some(transcribe_audio(Val(outcome.result)))]

(***************************************************************************)
(* Rows of table "reports" (models/report.py).  The patient columns and    *)
(* notes are plain data no operation reads; they are left out.             *)
(***************************************************************************)
ReportTypes == {"text", "voice", "mixed"}
Statuses == {"draft", "final", "reviewed", "archived"}
LongTexts == { <<"e","d","i","t","e","d"," ","t","e","x","t">> }

\* Report(...) of create_voice_report, step 1
TentativeRow(user) ==
  [nurse_id |-> user, report_type |-> "voice", content |-> <<>>,
   status |-> "draft", audio_file_path |-> None, audio_size |-> None,
   audio_duration |-> None, is_transcribed |-> FALSE,
   transcription_confidence |-> None,
   reviewed_by_id |-> None, reviewed_at |-> None]
\* Report(...) of create_text_report
TextRow(user, report_type, content) ==
  [nurse_id |-> user, report_type |-> report_type, content |-> content,
   status |-> "draft", audio_file_path |-> None, audio_size |-> None,
   audio_duration |-> None, is_transcribed |-> FALSE,
   transcription_confidence |-> None,
   reviewed_by_id |-> None, reviewed_at |-> None]
\* what process_voice_report returns
VoiceResult(file_info, transcription) ==
  [file_path |-> file_info.file_path, file_size |-> file_info.file_size,
   transcribed_text |-> transcription.text,
   confidence |-> transcription.confidence,
   duration |-> transcription.duration]
\* a variant that commits the text before the audio columns are assigned
FinalizedRowPartial(row, voice_result) ==
  [row EXCEPT !.content = voice_result.transcribed_text,
              !.is_transcribed = TRUE]
\* step 3 of create_voice_report: the six assignments, flushed by one commit
FinalizedRow(row, voice_result) ==
  [row EXCEPT !.content = voice_result.transcribed_text,
              !.audio_file_path = Some(voice_result.file_path),
              !.audio_size = Some(voice_result.file_size),
              !.audio_duration = voice_result.duration,
              !.is_transcribed = TRUE,
              !.transcription_confidence = Some(voice_result.confidence)]

(***************************************************************************)
(* State                                                                   *)
(***************************************************************************)
VARIABLES
  db,       \* committed rows of table reports: report id -> row
  files,    \* files of the upload directory: records path, size, complete
  nextId,   \* the next fresh report id (uuid4)
  pc,       \* voice request -> its position in create_voice_report
  req,      \* voice request -> its locals (user, upload, report id, results)
  resp,     \* voice request -> what create_voice_report returned or raised
  hist,     \* voice request -> the pipeline steps it performed, in order
  ops,      \* get_report, update_report and delete_report requests issued
  last,     \* the latest of these requests and the answer it got
  call,     \* a single call of a function of the services: argument, result
  users,    \* committed rows of table users, in the order of their insertion
  reg       \* register request -> its data, its position and its answer

program == <<db, files, nextId, pc, req, resp, hist, ops, last, users, reg>>
vars == <<db, files, nextId, pc, req, resp, hist, ops, last, call, users, reg>>

\* no user is registered and no register request is under way
NoRegistration ==
  /\ users = <<>>
  /\ reg = <<>>

\* datetime.now() at the second save_audio_file runs
Times == {0}

NoReq ==
  [user |-> None, file |-> None, report_id |-> None, file_info |-> None,
   voice_result |-> None, error |-> None, session |-> "active"]

\* an empty table and upload directory, the voice requests reqs not yet issued
Idle(reqs) ==
  /\ db = <<>>
  /\ files = {}
  /\ nextId = 1
  /\ pc = [r \in reqs |-> "received"]
  /\ req = [r \in reqs |-> NoReq]
  /\ resp = [r \in reqs |-> None]
  /\ hist = [r \in reqs |-> <<>>]
  /\ ops = 0
  /\ last = None

Init ==
  /\ Idle(VoiceReqs)
  /\ NoRegistration
  /\ call = None

\* the locals of a request that left the try block: the upload and the
\* results are out of scope, the except block sees the error and the report
Unwound(q, error) ==
  [NoReq EXCEPT !.report_id = q.report_id, !.error = error, !.session = q.session]

Exists(d, id) == id \in DOMAIN d
\* db.add(row); commit
Inserted(d, id, row) == d @@ (id :> row)
\* db.delete(row); commit; a row already gone is not an error
Deleted(d, id) == [i \in DOMAIN d \ {id} |-> d[i]]

(***************************************************************************)
(* create_voice_report, lines 103-118: the tentative row is committed.     *)
(***************************************************************************)
CreateTentative(r) ==
  /\ pc[r] = "received"
  /\ nextId <= MaxReports
  /\ \E user \in Authors, file \in Uploads :
       /\ db' = Inserted(db, nextId, TentativeRow(user))
       /\ req' = [req EXCEPT ![r] = [NoReq EXCEPT !.user = Some(user),
                                                  !.file = Some(file),
                                                  !.report_id = Some(nextId)]]
  /\ nextId' = nextId + 1
  /\ pc' = [pc EXCEPT ![r] = "record_created"]
  /\ hist' = [hist EXCEPT ![r] = Append(@, "insert")]
  /\ UNCHANGED <<files, resp, ops, last, call, users, reg>>

\* a variant that goes on after a validation error
AfterValidateIgnore(error) == "validated"
\* process_voice_report, line 279: an error of the validation ends it
AfterValidate(error) == IF IsSet(error) THEN "failed" ELSE "validated"

ValidateStep(r) ==
  /\ pc[r] = "record_created"
  /\ LET error == validate_audio_file(Val(req[r].file)) IN
       /\ pc' = [pc EXCEPT ![r] = AfterValidate(error)]
       /\ req' = [req EXCEPT ![r] = IF AfterValidate(error) = "failed"
                                    THEN Unwound(@, error)
                                    ELSE [@ EXCEPT !.error = error]]
  /\ hist' = [hist EXCEPT ![r] = Append(@, "validate")]
  /\ UNCHANGED <<db, files, nextId, resp, ops, last, call, users, reg>>

\* a variant that stores the file without waiting for the validation
CanStoreEarly(position) == position \in {"record_created", "validated"}
\* process_voice_report, line 282: save_audio_file; open(path, 'wb') replaces
\* a file of the same name
CanStore(position) == position = "validated"

StoreStep(r) ==
  /\ CanStore(pc[r])
  /\ \E timestamp \in Times, fault \in IoFaults(Val(req[r].file)) :
       LET s == save_audio_file(Val(req[r].file), Val(req[r].report_id),
                                timestamp, fault)
       IN /\ files' = { f \in files : f.path # s.stored.path } \cup {s.stored}
          /\ IF s.raised
             THEN /\ pc' = [pc EXCEPT ![r] = "failed"]
                  /\ req' = [req EXCEPT ![r] =
                               Unwound(@, Some([status_code |-> HTTP_500, kind |-> "OSError"]))]
             ELSE /\ pc' = [pc EXCEPT ![r] = "stored"]
                  /\ req' = [req EXCEPT ![r].file_info = Some(s.file_info)]
  /\ hist' = [hist EXCEPT ![r] = Append(@, "store")]
  /\ UNCHANGED <<db, nextId, resp, ops, last, call, users, reg>>

\* a variant that calls the engine again after it raised
AfterEngineErrorRetry == "stored"
\* process_voice_report, lines 285-288: the error of transcribe_audio is
\* not caught, it ends process_voice_report
AfterEngineError == "failed"

\* process_voice_report, lines 285-299: transcribe_audio turns every
\* exception of the engine into HTTPException(500)
TranscribeStep(r) ==
  /\ pc[r] = "stored"
  /\ \E outcome \in EngineOutcomes :
       LET t == try_transcribe_audio(outcome) IN
       IF IsSet(t.error)
       THEN /\ pc' = [pc EXCEPT ![r] = AfterEngineError]
            /\ req' = [req EXCEPT ![r] = Unwound(@, t.error)]
       ELSE /\ pc' = [pc EXCEPT ![r] = "transcribed"]
            /\ req' = [req EXCEPT ![r].voice_result =
                         Some(VoiceResult(Val(req[r].file_info), Val(t.transcription)))]
  /\ hist' = [hist EXCEPT ![r] = Append(@, "transcribe")]
  /\ UNCHANGED <<db, files, nextId, resp, ops, last, call, users, reg>>

(***************************************************************************)
(* The session of a request.  A commit whose flush raises (the UPDATE      *)
(* matched no row, or the database refused the statement) leaves the       *)
(* session's transaction rolled back and inactive: until Session.rollback  *)
(* is called every further commit of that session raises                   *)
(* PendingRollbackError.  get_db calls rollback only after the handler has *)
(* ended (core/database.py); create_voice_report calls none.               *)
(***************************************************************************)
SessionAfterFailedFlush == "inactive"

\* the answer of the service: the report it returns or the error it raises
Returned(row) ==
  [status_code |-> 201, kind |-> "ok", cause |-> "none", report |-> Some(row)]
Raised(status_code, kind, cause) ==
  [status_code |-> status_code, kind |-> kind, cause |-> cause, report |-> None]

\* create_voice_report, lines 127-135: one UPDATE of the changed columns
FinalizeStep(r) ==
  /\ pc[r] = "transcribed"
  /\ LET rid == Val(req[r].report_id) IN
     \E db_error \in BOOLEAN :
       IF ~Exists(db, rid) \/ db_error
       THEN /\ pc' = [pc EXCEPT ![r] = "failed"]
            /\ req' = [req EXCEPT ![r] =
                 [Unwound(@, Some([status_code |-> HTTP_500,
                                   kind |-> IF Exists(db, rid) THEN "DBAPIError"
                                            ELSE "StaleDataError"]))
                    EXCEPT !.session = SessionAfterFailedFlush]]
            /\ db' = db
       ELSE /\ db' = [db EXCEPT ![rid] = FinalizedRow(@, Val(req[r].voice_result))]
            /\ pc' = [pc EXCEPT ![r] = "committed"]
            /\ req' = [req EXCEPT ![r] = Unwound(@, None)]
  /\ hist' = [hist EXCEPT ![r] = Append(@, "finalize")]
  /\ UNCHANGED <<files, nextId, resp, ops, last, call, users, reg>>

\* create_voice_report, lines 136-138: refresh re-reads the row and fails
\* when it is gone
RefreshStep(r) ==
  /\ pc[r] = "committed"
  /\ LET rid == Val(req[r].report_id) IN
     IF Exists(db, rid)
     THEN /\ pc' = [pc EXCEPT ![r] = "finalized"]
          /\ resp' = [resp EXCEPT ![r] = Some(Returned(db[rid]))]
          /\ req' = req
     ELSE /\ pc' = [pc EXCEPT ![r] = "failed"]
          /\ req' = [req EXCEPT ![r] =
                       Unwound(@, Some([status_code |-> HTTP_500, kind |-> "InvalidRequestError"]))]
          /\ resp' = resp
  /\ UNCHANGED <<db, files, nextId, hist, ops, last, call, users, reg>>

\* a variant that leaves the tentative row in place
CompensateKeep(d, rid) == d
\* create_voice_report, lines 142-143
Compensate(d, rid) == Deleted(d, rid)
\* create_voice_report, lines 145-148
WrappedError(error) == Raised(HTTP_500, "VoiceProcessingFailed", error.kind)

\* a variant that removes the stored audio of the failed request
UploadsCleaned(fs, rid) == { f \in fs : f.path.report_id # rid }
\* create_voice_report, lines 140-148: the except block calls nothing of
\* the storage, the upload directory stays as it is
UploadsKept(fs, rid) == fs

\* create_voice_report, lines 140-148: the except block
CompensateStep(r) ==
  /\ pc[r] = "failed"
  /\ files' = UploadsKept(files, Val(req[r].report_id))
  /\ IF req[r].session = "active"
     THEN /\ db' = Compensate(db, Val(req[r].report_id))
          /\ resp' = [resp EXCEPT ![r] = Some(WrappedError(Val(req[r].error)))]
          /\ pc' = [pc EXCEPT ![r] = "compensated"]
          /\ hist' = [hist EXCEPT ![r] = Append(@, "delete")]
     ELSE /\ db' = db
          /\ resp' = [resp EXCEPT ![r] =
                        Some(Raised(HTTP_500, "PendingRollbackError", Val(req[r].error).kind))]
          /\ pc' = [pc EXCEPT ![r] = "aborted"]
          /\ hist' = hist
  /\ UNCHANGED <<nextId, req, ops, last, call, users, reg>>

(***************************************************************************)
(* The other report operations; each runs in a session of its own and      *)
(* takes effect at its commit.                                             *)
(***************************************************************************)
\* create_text_report; ReportCreate.report_type is any ReportType
CreatedTypes == {"text", "voice"}
CreateTextReport ==
  /\ nextId <= MaxReports
  /\ \E user \in Authors, report_type \in CreatedTypes, content \in LongTexts :
       db' = Inserted(db, nextId, TextRow(user, report_type, content))
  /\ nextId' = nextId + 1
  /\ UNCHANGED <<files, pc, req, resp, hist, ops, last, call, users, reg>>

\* the access check of update_report and delete_report (lines 201 and 246)
Forbidden(row, user) == row.nurse_id # user /\ ~is_admin_attr(user)

\* ReportUpdate.model_dump(exclude_unset=True): the fields the request set
UpdateStatuses == {"draft", "final"}
ReportUpdates ==
  [content : {None} \cup {Some(t) : t \in LongTexts},
   status : {None} \cup {Some(st) : st \in UpdateStatuses}]
\* a variant whose request also carries the owner of the report
UpdatedWithOwner(row, update_data) ==
  [row EXCEPT !.content = IF IsSet(update_data.content)
                          THEN Val(update_data.content) ELSE @,
              !.status = IF IsSet(update_data.status)
                         THEN Val(update_data.status) ELSE @,
              !.nurse_id = "nurse2"]
\* update_report, lines 208-210
Updated(row, update_data) ==
  [row EXCEPT !.content = IF IsSet(update_data.content)
                          THEN Val(update_data.content) ELSE @,
              !.status = IF IsSet(update_data.status)
                         THEN Val(update_data.status) ELSE @]

\* what a report endpoint answered: the status code of the response
Outcome(op, user, id, status_code) ==
  [op |-> op, user |-> user, id |-> id, status_code |-> status_code]

\* GET /reports/{report_id} (api/v1/reports.py)
GetReport ==
  /\ ops < MaxOps
  /\ \E id \in ReportIds, user \in Users :
       last' = Some(Outcome("get", user, id,
                 IF ~Exists(db, id) THEN HTTP_404
                 ELSE IF Forbidden(db[id], user) THEN HTTP_403
                 ELSE HTTP_200))
  /\ ops' = ops + 1
  /\ UNCHANGED <<db, files, nextId, pc, req, resp, hist, call, users, reg>>

UpdateReport ==
  /\ ops < MaxOps
  /\ \E id \in ReportIds, user \in Users, update_data \in ReportUpdates :
       IF ~Exists(db, id)
       THEN /\ db' = db
            /\ last' = Some(Outcome("update", user, id, HTTP_404))
       ELSE IF Forbidden(db[id], user)
       THEN /\ db' = db
            /\ last' = Some(Outcome("update", user, id, HTTP_403))
       ELSE /\ db' = [db EXCEPT ![id] = Updated(@, update_data)]
            /\ last' = Some(Outcome("update", user, id, HTTP_200))
  /\ ops' = ops + 1
  /\ UNCHANGED <<files, nextId, pc, req, resp, hist, call, users, reg>>

\* VoiceService.delete_audio_file: os.remove, every exception swallowed
delete_audio_file(fs, file_path, os_error) ==
  IF os_error THEN fs ELSE { f \in fs : f.path # file_path }

DeleteReport ==
  /\ ops < MaxOps
  /\ \E id \in ReportIds, user \in Users, os_error \in BOOLEAN :
       IF ~Exists(db, id)
       THEN /\ UNCHANGED <<db, files>>
            /\ last' = Some(Outcome("delete", user, id, HTTP_404))
       ELSE IF Forbidden(db[id], user)
       THEN /\ UNCHANGED <<db, files>>
            /\ last' = Some(Outcome("delete", user, id, HTTP_403))
       ELSE /\ files' = IF IsSet(db[id].audio_file_path)
                        THEN delete_audio_file(files, Val(db[id].audio_file_path),
                                               os_error)
                        ELSE files
            /\ db' = Deleted(db, id)
            /\ last' = Some(Outcome("delete", user, id, HTTP_200))
  /\ ops' = ops + 1
  /\ UNCHANGED <<nextId, pc, req, resp, hist, call, users, reg>>

Next ==
  \/ \E r \in VoiceReqs : CreateTentative(r)
  \/ \E r \in VoiceReqs : ValidateStep(r)
  \/ \E r \in VoiceReqs : StoreStep(r)
  \/ \E r \in VoiceReqs : TranscribeStep(r)
  \/ \E r \in VoiceReqs : FinalizeStep(r)
  \/ \E r \in VoiceReqs : RefreshStep(r)
  \/ \E r \in VoiceReqs : CompensateStep(r)
  \/ CreateTextReport
  \/ GetReport
  \/ UpdateReport
  \/ DeleteReport

Spec == Init /\ [][Next]_vars

(***************************************************************************)
(* The methods of Report that move the status (models/report.py).  No      *)
(* endpoint or service calls them; SpecLifecycle adds them to the report   *)
(* operations, applied to a committed row by a caller that commits.        *)
(***************************************************************************)
\* Report.mark_as_final
mark_as_final(row) ==
  IF row.status = "draft" THEN [row EXCEPT !.status = "final"] ELSE row
\* a variant that records the reviewer and leaves the time of the review unset
mark_as_reviewed_untimed(row, reviewer_id, now) ==
  [row EXCEPT !.status = "reviewed", !.reviewed_by_id = Some(reviewer_id)]
\* Report.mark_as_reviewed
mark_as_reviewed(row, reviewer_id, now) ==
  [row EXCEPT !.status = "reviewed",
              !.reviewed_by_id = Some(reviewer_id),
              !.reviewed_at = Some(now)]

MarkAsFinal ==
  /\ ops < MaxOps
  /\ \E id \in DOMAIN db : db' = [db EXCEPT ![id] = mark_as_final(@)]
  /\ ops' = ops + 1
  /\ UNCHANGED <<files, nextId, pc, req, resp, hist, last, call, users, reg>>

MarkAsReviewed ==
  /\ ops < MaxOps
  /\ \E id \in DOMAIN db, reviewer_id \in Users, now \in Times :
       db' = [db EXCEPT ![id] = mark_as_reviewed(@, reviewer_id, now)]
  /\ ops' = ops + 1
  /\ UNCHANGED <<files, nextId, pc, req, resp, hist, last, call, users, reg>>

NextLifecycle ==
  \/ \E r \in VoiceReqs : CreateTentative(r)
  \/ \E r \in VoiceReqs : ValidateStep(r)
  \/ \E r \in VoiceReqs : StoreStep(r)
  \/ \E r \in VoiceReqs : TranscribeStep(r)
  \/ \E r \in VoiceReqs : FinalizeStep(r)
  \/ \E r \in VoiceReqs : RefreshStep(r)
  \/ \E r \in VoiceReqs : CompensateStep(r)
  \/ CreateTextReport
  \/ GetReport
  \/ UpdateReport
  \/ DeleteReport
  \/ MarkAsFinal
  \/ MarkAsReviewed
SpecLifecycle == Init /\ [][NextLifecycle]_vars

(***************************************************************************)
(* validate_audio_file on its own: one call, its upload drawn from file    *)
(* names with and without a dot, in either case, and from declared sizes   *)
(* around the maximum.                                                     *)
(***************************************************************************)
ProbeNames ==
  { <<"a",".","w","a","v">>, <<"a",".","W","A","V">>, <<"a",".","M","p","3">>,
    <<"a",".","m","4","a">>, <<"a",".","o","g","g">>, <<"a",".","w","e","b","m">>,
    <<"a",".","f","l","a","c">>, <<"a",".","t","x","t">>,
    <<"a",".","w","a","v",".","t","x","t">>, <<"a",".","t","x","t",".","w","a","v">>,
    <<"a",".","w","a","v","e">>, <<"a",".">>, <<".","F","l","a","c">>,
    <<"a">>, <<"w","a","v">>, <<"M","P","3">> }
ProbeSizes ==
  { None, Some(0), Some(1), Some(MAX_FILE_SIZE - 1), Some(MAX_FILE_SIZE),
    Some(MAX_FILE_SIZE + 1) }
ProbeUploads ==
  { Upload(n, z, IF IsSet(z) THEN Val(z) ELSE 1) : n \in ProbeNames, z \in ProbeSizes }
Pending(fn, arg) == [fn |-> fn, arg |-> arg, done |-> FALSE, out |-> None]
InitValidate ==
  /\ Idle(VoiceReqs)
  /\ NoRegistration
  /\ call \in { Some(Pending("validate_audio_file", file)) : file \in ProbeUploads }
CallValidate ==
  /\ IsSet(call)
  /\ Val(call).fn = "validate_audio_file"
  /\ ~Val(call).done
  /\ call' = Some([Val(call) EXCEPT !.done = TRUE,
                                    !.out = validate_audio_file(Val(call).arg)])
  /\ UNCHANGED program
NextValidate == CallValidate
SpecValidate == InitValidate /\ [][NextValidate]_vars

(***************************************************************************)
(* transcribe_audio on its own: one call on an engine result whose         *)
(* segments carry no_speech_prob 0, 0.1, 0.25, 0.3, 1 or none at all.      *)
(***************************************************************************)
ProbeProbs == {None, Some(0), Some(10), Some(25), Some(30), Some(100)}
ProbeSegments == [no_speech_prob : ProbeProbs, end : SegmentEnds]
ProbeResults ==
  [text : {<<" ", "o", "k", " ">>}, segments : SeqsUpTo(ProbeSegments, MaxProbeSegments)]
InitTranscribe ==
  /\ Idle(VoiceReqs)
  /\ NoRegistration
  /\ call \in { Some(Pending("transcribe_audio", result)) : result \in ProbeResults }
CallTranscribe ==
  /\ IsSet(call)
  /\ Val(call).fn = "transcribe_audio"
  /\ ~Val(call).done
  /\ call' = Some([Val(call) EXCEPT !.done = TRUE,
                                    !.out = Some(transcribe_audio(Val(call).arg))])
  /\ UNCHANGED program
NextTranscribe == CallTranscribe
SpecTranscribe == InitTranscribe /\ [][NextTranscribe]_vars

(***************************************************************************)
(* The confidence estimate of the remote engine (specification, 4.4).  The *)
(* sources hold the local engine only; of the remote one they keep the     *)
(* settings OPENAI_API_KEY and OPENAI_MODEL (core/config.py).  The         *)
(* estimate is in thousandths.                                             *)
(***************************************************************************)
MIN_TEXT == 10
FLOOR_CONFIDENCE == 500
LOW_CONFIDENCE == 700
HIGH_CONFIDENCE == 980
\* len(text.split()): the maximal runs of characters other than a space
word_count(text) ==
  Cardinality({ i \in 1..Len(text) :
                  text[i] # " " /\ (i = Len(text) \/ text[i + 1] = " ") })
clamp(x, lo, hi) == IF x < lo THEN lo ELSE IF x > hi THEN hi ELSE x
\* a variant whose floor also takes the texts of exactly 10 characters
estimate_floor_at_10(text) ==
  IF Len(text) <= MIN_TEXT THEN FLOOR_CONFIDENCE
  ELSE clamp(5 * (Min(Len(text), 100) + 5 * Min(word_count(text), 20)),
             LOW_CONFIDENCE, HIGH_CONFIDENCE)
\* (min(len/100, 1) + min(words/20, 1)) / 2 is
\* (min(len, 100) + 5 * min(words, 20)) / 200, that is 5 * (...) thousandths
estimate(text) ==
  IF Len(text) < MIN_TEXT THEN FLOOR_CONFIDENCE
  ELSE clamp(5 * (Min(Len(text), 100) + 5 * Min(word_count(text), 20)),
             LOW_CONFIDENCE, HIGH_CONFIDENCE)
\* n words of k letters each, one space between two words
Letters(k) == [i \in 1..k |-> "a"]
RECURSIVE Words(_, _)
Words(n, k) ==
  IF n = 0 THEN <<>>
  ELSE IF n = 1 THEN Letters(k)
  ELSE Words(n - 1, k) \o <<" ">> \o Letters(k)
ProbeTexts ==
  { Words(n, k) : n \in 0..MaxWords, k \in 1..MaxWordLen }
    \cup { Words(n, 4) \o <<"a">> : n \in 1..MaxWords }
InitEstimate ==
  /\ Idle(VoiceReqs)
  /\ NoRegistration
  /\ call \in { Some(Pending("estimate", text)) : text \in ProbeTexts }
CallEstimate ==
  /\ IsSet(call)
  /\ Val(call).fn = "estimate"
  /\ ~Val(call).done
  /\ call' = Some([Val(call) EXCEPT !.done = TRUE, !.out = Some(estimate(Val(call).arg))])
  /\ UNCHANGED program
NextEstimate == CallEstimate
SpecEstimate == InitEstimate /\ [][NextEstimate]_vars

(***************************************************************************)
(* The loop of save_audio_file, statement by statement, on one upload:     *)
(* read a chunk, leave at an empty one, else write it and add its length.  *)
(* remaining is what the stream still holds, written what the file holds.  *)
(***************************************************************************)
StreamSizes ==
  { 0, 1, CHUNK_SIZE - 1, CHUNK_SIZE, CHUNK_SIZE + 1, 2 * CHUNK_SIZE,
    2 * CHUNK_SIZE + 7, 3 * CHUNK_SIZE, 5 * CHUNK_SIZE + 1, MAX_FILE_SIZE,
    MAX_FILE_SIZE + 1 }
SaveCalls ==
  { [fn |-> "save_audio_file", arg |-> Upload(<<"a",".","w","a","v">>, None, n),
     done |-> FALSE, out |-> None, at |-> "read", remaining |-> n, chunk |-> 0,
     written |-> 0, file_size |-> 0] : n \in StreamSizes }
InitSave ==
  /\ Idle(VoiceReqs)
  /\ NoRegistration
  /\ call \in { Some(c) : c \in SaveCalls }
Saving(at) ==
  IsSet(call) /\ Val(call).fn = "save_audio_file" /\ ~Val(call).done /\ Val(call).at = at
\* while chunk := await file.read(1024 * 1024)
SaveRead ==
  /\ Saving("read")
  /\ LET c == Val(call)
         chunk == read(c.remaining)
     IN call' = Some([c EXCEPT !.chunk = chunk,
                               !.remaining = @ - chunk,
                               !.at = IF chunk = 0 THEN "return" ELSE "write"])
  /\ UNCHANGED program
\* await f.write(chunk); file_size += len(chunk)
SaveWrite ==
  /\ Saving("write")
  /\ LET c == Val(call)
     IN call' = Some([c EXCEPT !.written = @ + c.chunk,
                               !.file_size = @ + c.chunk,
                               !.at = "read"])
  /\ UNCHANGED program
\* return {"file_path": ..., "file_size": file_size, ...}
SaveReturn ==
  /\ Saving("return")
  /\ call' = Some([Val(call) EXCEPT !.done = TRUE,
                                    !.out = Some([file_size |-> Val(call).file_size])])
  /\ UNCHANGED program
NextSave ==
  \/ SaveRead
  \/ SaveWrite
  \/ SaveReturn
SpecSave == InitSave /\ [][NextSave]_vars

(***************************************************************************)
(* Two voice-report requests on an empty system, each running the whole    *)
(* pipeline, in every interleaving of their steps.                         *)
(***************************************************************************)
PairReqs == {1, 2}
InitPair ==
  /\ Idle(PairReqs)
  /\ NoRegistration
  /\ call = None
NextPair ==
  \/ \E r \in PairReqs : CreateTentative(r)
  \/ \E r \in PairReqs : ValidateStep(r)
  \/ \E r \in PairReqs : StoreStep(r)
  \/ \E r \in PairReqs : TranscribeStep(r)
  \/ \E r \in PairReqs : FinalizeStep(r)
  \/ \E r \in PairReqs : RefreshStep(r)
  \/ \E r \in PairReqs : CompensateStep(r)
SpecPair == InitPair /\ [][NextPair]_vars

(***************************************************************************)
(* The endpoint POST /reports/voice (api/v1/reports.py): it calls the      *)
(* service and builds the response from the report the service returned.   *)
(* ReportResponse takes content from ReportBase, where it has min_length   *)
(* 10; a report that fails the validation raises ValidationError, which    *)
(* main.py answers with 500.  An error of the service passes through.      *)
(***************************************************************************)
MIN_CONTENT == 10
\* ReportResponse.model_validate(report)
model_validate(row) == Len(row.content) >= MIN_CONTENT
\* create_voice_report of the router, lines 149-165
endpoint_answer(answer) ==
  IF IsSet(answer.report)
  THEN IF model_validate(Val(answer.report))
       THEN answer
       ELSE Raised(HTTP_500, "ValidationError", "ValidationError")
  ELSE answer

(***************************************************************************)
(* The voice requests on their own, every awaited step of a request that   *)
(* has inserted its row returning or raising in the end: the event loop    *)
(* resumes a task whose awaited file write, engine call or commit is over. *)
(***************************************************************************)
NextVoice ==
  \/ \E r \in VoiceReqs : CreateTentative(r)
  \/ \E r \in VoiceReqs : ValidateStep(r)
  \/ \E r \in VoiceReqs : StoreStep(r)
  \/ \E r \in VoiceReqs : TranscribeStep(r)
  \/ \E r \in VoiceReqs : FinalizeStep(r)
  \/ \E r \in VoiceReqs : RefreshStep(r)
  \/ \E r \in VoiceReqs : CompensateStep(r)
StepsReturn ==
  \A r \in VoiceReqs :
    /\ WF_vars(ValidateStep(r))
    /\ WF_vars(StoreStep(r))
    /\ WF_vars(TranscribeStep(r))
    /\ WF_vars(FinalizeStep(r))
    /\ WF_vars(RefreshStep(r))
    /\ WF_vars(CompensateStep(r))
SpecVoiceFair == Init /\ [][NextVoice]_vars /\ StepsReturn

(***************************************************************************)
(* POST /auth/register.  Each request runs register_user in a session of   *)
(* its own: the two SELECTs and the commit of the INSERT are separate      *)
(* statements, and statements of other requests may come between them.     *)
(* Columns email and employee_code of table users are declared unique:     *)
(* the database refuses an INSERT that repeats one (IntegrityError), and   *)
(* the handler of SQLAlchemyError in main.py answers it with 500.          *)
(***************************************************************************)
RegReqs == 1..MaxRegister
Emails == {"a@hospital", "b@hospital"}
EmployeeCodes == {"NUR001", "NUR002"}
UserCreates == [email : Emails, employee_code : EmployeeCodes]
EmailTaken(u, email) == \E i \in 1..Len(u) : u[i].email = email
CodeTaken(u, employee_code) == \E i \in 1..Len(u) : u[i].employee_code = employee_code
\* unique=True on User.email and User.employee_code
UniqueViolation(u, row) ==
  EmailTaken(u, row.email) \/ CodeTaken(u, row.employee_code)
InitRegister ==
  /\ Idle({})
  /\ call = None
  /\ users = <<>>
  /\ reg \in [RegReqs -> [user_data : UserCreates, at : {"received"}, answer : {None}]]
\* register_user, lines 61-70
CheckEmail(i) ==
  /\ reg[i].at = "received"
  /\ reg' = [reg EXCEPT ![i] =
               IF EmailTaken(users, reg[i].user_data.email)
               THEN [@ EXCEPT !.at = "done", !.answer = Some(HTTP_400)]
               ELSE [@ EXCEPT !.at = "email_checked"]]
  /\ UNCHANGED <<db, files, nextId, pc, req, resp, hist, ops, last, call, users>>
\* register_user, lines 73-82
CheckCode(i) ==
  /\ reg[i].at = "email_checked"
  /\ reg' = [reg EXCEPT ![i] =
               IF CodeTaken(users, reg[i].user_data.employee_code)
               THEN [@ EXCEPT !.at = "done", !.answer = Some(HTTP_400)]
               ELSE [@ EXCEPT !.at = "code_checked"]]
  /\ UNCHANGED <<db, files, nextId, pc, req, resp, hist, ops, last, call, users>>
\* register_user, lines 88-104, and the answer of the endpoint
AddUser(i) ==
  /\ reg[i].at = "code_checked"
  /\ IF UniqueViolation(users, reg[i].user_data)
     THEN /\ users' = users
          /\ reg' = [reg EXCEPT ![i].at = "done", ![i].answer = Some(HTTP_500)]
     ELSE /\ users' = Append(users, reg[i].user_data)
          /\ reg' = [reg EXCEPT ![i].at = "done", ![i].answer = Some(HTTP_201)]
  /\ UNCHANGED <<db, files, nextId, pc, req, resp, hist, ops, last, call>>
NextRegister ==
  \/ \E i \in RegReqs : CheckEmail(i)
  \/ \E i \in RegReqs : CheckCode(i)
  \/ \E i \in RegReqs : AddUser(i)
SpecRegister == InitRegister /\ [][NextRegister]_vars

(***************************************************************************)
(* JWT tokens (core/security.py).  A token is its claims sub, type and exp *)
(* and the key that signed it; times are minutes.  decode_token accepts a  *)
(* token signed with SECRET_KEY that has not expired.  The accounts are    *)
(* Users, of which nurse2 is deactivated; "ghost" has no account.          *)
(***************************************************************************)
SECRET_KEY == "SECRET_KEY"
ACCESS_TOKEN_EXPIRE_MINUTES == 30
REFRESH_TOKEN_EXPIRE_DAYS == 7
Now == 100
IssueTimes == {0, 90}
\* create_access_token, lines 102-126
create_access_token(data, utcnow) ==
  [sub |-> data.sub, exp |-> utcnow + ACCESS_TOKEN_EXPIRE_MINUTES,
   type |-> Some("access"), key |-> SECRET_KEY]
\* create_refresh_token, lines 147-168
create_refresh_token(data, utcnow) ==
  [sub |-> data.sub, exp |-> utcnow + REFRESH_TOKEN_EXPIRE_DAYS * 24 * 60,
   type |-> Some("refresh"), key |-> SECRET_KEY]
\* create_tokens_pair, lines 272-283
create_tokens_pair(user_id, utcnow) ==
  [access_token |-> create_access_token([sub |-> Some(user_id)], utcnow),
   refresh_token |-> create_refresh_token([sub |-> Some(user_id)], utcnow)]
\* decode_token, lines 188-203: JWTError for a bad signature or a past exp
decode_token(token, utcnow) ==
  IF token.key = SECRET_KEY /\ token.exp > utcnow
  THEN [error |-> None, payload |-> Some([sub |-> token.sub, type |-> token.type])]
  ELSE [error |-> Some(HTTP_401), payload |-> None]
is_active(user) == user # "nurse2"
Denied(status_code) == [status_code |-> status_code, user |-> None, tokens |-> None]
\* AuthService.get_current_user, lines 198-216
lookup_user(user_id) ==
  IF ~IsSet(user_id) \/ Val(user_id) \notin Users THEN Denied(HTTP_401)
  ELSE IF ~is_active(Val(user_id)) THEN Denied(HTTP_403)
  ELSE [status_code |-> HTTP_200, user |-> user_id, tokens |-> None]
\* a variant that does not look at the type of the token
get_current_user_any_type(token, utcnow) ==
  LET d == decode_token(token, utcnow) IN
  IF IsSet(d.error) THEN Denied(HTTP_401)
  ELSE IF ~IsSet(Val(d.payload).sub) THEN Denied(HTTP_401)
  ELSE lookup_user(Val(d.payload).sub)
\* dependencies.get_current_user, lines 96-129
get_current_user(token, utcnow) ==
  LET d == decode_token(token, utcnow) IN
  IF IsSet(d.error) THEN Denied(HTTP_401)
  ELSE IF Val(d.payload).type # Some("access") THEN Denied(HTTP_401)
  ELSE IF ~IsSet(Val(d.payload).sub) THEN Denied(HTTP_401)
  ELSE lookup_user(Val(d.payload).sub)
\* AuthService.refresh_token, lines 292-325
refresh_token(token, utcnow) ==
  LET d == decode_token(token, utcnow) IN
  IF IsSet(d.error) THEN Denied(HTTP_401)
  ELSE IF Val(d.payload).type # Some("refresh") THEN Denied(HTTP_401)
  ELSE LET found == lookup_user(Val(d.payload).sub) IN
       IF found.status_code # HTTP_200 THEN found
       ELSE [found EXCEPT !.tokens = Some(create_tokens_pair(Val(found.user), utcnow))]
\* the tokens presented: those the service issued, now or long ago, for an
\* account or for none, and tokens of other makes and other signers
Subjects == Users \cup {"ghost"}
IssuedTokens ==
  { create_access_token([sub |-> Some(u)], t) : u \in Subjects, t \in IssueTimes }
    \cup { create_refresh_token([sub |-> Some(u)], t) : u \in Subjects, t \in IssueTimes }
OtherTokens ==
  [sub : {None} \cup { Some(u) : u \in Subjects },
   type : {None, Some("other"), Some("access"), Some("refresh")},
   exp : {Now + 1},
   key : {SECRET_KEY, "forged"}]
ProbeTokens == IssuedTokens \cup OtherTokens
InitToken ==
  /\ Idle(VoiceReqs)
  /\ NoRegistration
  /\ call \in { Some(Pending(fn, token)) :
                  fn \in {"get_current_user", "refresh_token"}, token \in ProbeTokens }
CallGetCurrentUser ==
  /\ IsSet(call)
  /\ Val(call).fn = "get_current_user"
  /\ ~Val(call).done
  /\ call' = Some([Val(call) EXCEPT !.done = TRUE,
                                    !.out = Some(get_current_user(Val(call).arg, Now))])
  /\ UNCHANGED program
CallRefreshToken ==
  /\ IsSet(call)
  /\ Val(call).fn = "refresh_token"
  /\ ~Val(call).done
  /\ call' = Some([Val(call) EXCEPT !.done = TRUE,
                                    !.out = Some(refresh_token(Val(call).arg, Now))])
  /\ UNCHANGED program
NextToken ==
  \/ CallGetCurrentUser
  \/ CallRefreshToken
SpecToken == InitToken /\ [][NextToken]_vars

(***************************************************************************)
(* Vocabulary of the properties                                            *)
(***************************************************************************)
Started(r) == pc[r] # "received"
Ended(r) == pc[r] \in {"finalized", "compensated", "aborted"}
ReportOf(r) == Val(req[r].report_id)
Answer(r) == Val(resp[r])
\* the request ended with an error whose cause is one of kinds
EndedBy(r, kinds) ==
  /\ pc[r] \in {"compensated", "aborted"}
  /\ Answer(r).cause \in kinds
FilesOf(id) == { f \in files : f.path.report_id = id }
Contains(h, e) == \E i \in 1..Len(h) : h[i] = e
ValidationErrors == {"InvalidFormat", "FileTooLarge"}
UpdateErrors == {"StaleDataError", "DBAPIError"}
\* the audio and transcription columns of a row
ResultFields(row) ==
  <<row.audio_file_path, row.audio_size, row.audio_duration,
    row.is_transcribed, row.transcription_confidence>>

\* C1: when the engine raised on a stored file, the tentative row is gone
\* once create_voice_report has ended.
C1_RowGoneAfterEngineError ==
  \A r \in VoiceReqs :
    EndedBy(r, {"TranscriptionFailed"}) =>
      /\ Contains(hist[r], "store")
      /\ ~Exists(db, ReportOf(r))
C1_Witness ==
  \E r \in VoiceReqs :
    /\ EndedBy(r, {"TranscriptionFailed"})
    /\ \E f \in FilesOf(ReportOf(r)) : f.complete

\* C2: the record a successful create_voice_report returns, and the row it
\* left in the table, are transcribed, name an audio file and carry a
\* confidence between 0 and 1.
GoodVoiceRecord(row) ==
  /\ row.is_transcribed
  /\ IsSet(row.audio_file_path)
  /\ Len(Val(row.audio_file_path).ext) > 0
  /\ IsSet(row.transcription_confidence)
  /\ Val(row.transcription_confidence) >= 0
  /\ Val(row.transcription_confidence) <= 100
C2_SuccessRecord ==
  \A r \in VoiceReqs :
    pc[r] = "finalized" =>
      /\ Answer(r).kind = "ok"
      /\ GoodVoiceRecord(Val(Answer(r).report))
      /\ Exists(db, ReportOf(r)) => GoodVoiceRecord(db[ReportOf(r)])
C2_Witness ==
  \E r \in VoiceReqs :
    /\ pc[r] = "finalized"
    /\ Val(Val(Answer(r).report).transcription_confidence) = 25
    /\ Exists(db, ReportOf(r))

\* C3: a VOICE row has audio_file_path set exactly when is_transcribed is
\* true, both exactly when its pipeline committed its result, and no VOICE
\* row of an ended request is left half-filled.
HalfFilled(row) ==
  \/ ~row.is_transcribed /\ row.content = <<>>
  \/ IsSet(row.audio_file_path) /\ ~row.is_transcribed
PipelineSucceeded(id) ==
  \E r \in VoiceReqs :
    /\ Started(r)
    /\ ReportOf(r) = id
    /\ Contains(hist[r], "finalize")
    /\ pc[r] \in {"committed", "finalized"}
C3_VoiceRowsComplete ==
  \A id \in DOMAIN db :
    db[id].report_type = "voice" =>
      /\ IsSet(db[id].audio_file_path) <=> db[id].is_transcribed
      /\ db[id].is_transcribed <=> PipelineSucceeded(id)
      /\ \A r \in VoiceReqs :
           (Ended(r) /\ ReportOf(r) = id) => ~HalfFilled(db[id])

\* C4: when the validation of the upload fails, no file of that request is
\* on storage, and once the request has ended its tentative row is deleted.
C4_ValidationFailureLeavesNothing ==
  \A r \in VoiceReqs :
    /\ (Started(r) /\ IsSet(req[r].error)
          /\ Val(req[r].error).kind \in ValidationErrors)
         => FilesOf(ReportOf(r)) = {}
    /\ EndedBy(r, ValidationErrors) =>
         /\ FilesOf(ReportOf(r)) = {}
         /\ ~Exists(db, ReportOf(r))
C4_Witness ==
  \E r \in VoiceReqs : EndedBy(r, {"FileTooLarge"})

\* C5: when the validation fails, the caller of create_voice_report gets
\* the validation error itself, the 400 of validate_audio_file.
C5_ValidationErrorSurfaces ==
  \A r \in VoiceReqs :
    EndedBy(r, ValidationErrors) =>
      /\ Answer(r).status_code = HTTP_400
      /\ Answer(r).kind \in ValidationErrors

\* C6: when the write of the audio stream fails part-way, the request ends
\* with an error and without its row, and no row ever names a partly
\* written file.
C6_PartialFileUnreferenced ==
  /\ \A r \in VoiceReqs :
       EndedBy(r, {"OSError"}) =>
         /\ Answer(r).status_code = HTTP_500
         /\ ~Exists(db, ReportOf(r))
  /\ \A id \in DOMAIN db : \A f \in files :
       (IsSet(db[id].audio_file_path) /\ Val(db[id].audio_file_path) = f.path)
         => f.complete
C6_Witness ==
  \E r \in VoiceReqs :
    /\ EndedBy(r, {"OSError"})
    /\ \E f \in FilesOf(ReportOf(r)) : ~f.complete /\ f.size > 0

\* C7: when the final update of the row fails, the compensating delete
\* runs and the request ends with a processing error and without a row of
\* its report id.
C7_FailedUpdateCompensated ==
  \A r \in VoiceReqs :
    EndedBy(r, UpdateErrors) =>
      /\ Answer(r).status_code = HTTP_500
      /\ ~Exists(db, ReportOf(r))

\* C8: the result columns of a voice report are written by one update: no
\* committed row has some of them set and the others still tentative, and
\* every step that changes one of them is the finalize of that row's
\* request and writes all six values of its voice result.
AllOrNone(row) ==
  /\ row.is_transcribed <=> IsSet(row.audio_file_path)
  /\ row.is_transcribed <=> IsSet(row.audio_size)
  /\ row.is_transcribed <=> IsSet(row.transcription_confidence)
  /\ IsSet(row.audio_duration) => row.is_transcribed
WrittenAtOnce ==
  \A id \in DOMAIN db \cap DOMAIN db' :
    ResultFields(db'[id]) # ResultFields(db[id]) =>
      \E r \in VoiceReqs :
        /\ Started(r)
        /\ ReportOf(r) = id
        /\ pc[r] = "transcribed"
        /\ db'[id] = FinalizedRow(db[id], Val(req[r].voice_result))
        /\ db'[id].content = Val(req[r].voice_result).transcribed_text
C8_SingleAtomicUpdate ==
  /\ [](\A id \in DOMAIN db : AllOrNone(db[id]))
  /\ [][WrittenAtOnce]_vars
C8_Witness ==
  \E id \in DOMAIN db :
    /\ db[id].is_transcribed
    /\ IsSet(db[id].audio_duration)
    /\ db[id].content # <<>>

\* C9: between the tentative insert and the finalize or the
\* compensating delete, no step of another request changes or deletes the
\* tentative row.
InWindow(r) == pc[r] \in {"record_created", "validated", "stored", "transcribed", "failed"}
OwnStep(r) == pc'[r] # pc[r]
C9_SingleWriter ==
  [][\A r \in VoiceReqs :
       (InWindow(r) /\ ~OwnStep(r) /\ Exists(db, ReportOf(r))) =>
         /\ Exists(db', ReportOf(r))
         /\ db'[ReportOf(r)] = db[ReportOf(r)]]_vars
\* C10: a voice request inserts the tentative row (DRAFT, VOICE, empty
\* content, not transcribed), then validates, stores, transcribes and
\* finalizes, in that order: no file of the request exists before the
\* validation passed, the engine runs only after the file was stored, and
\* the row is finalized only after the engine returned.
StepOrder == <<"insert", "validate", "store", "transcribe", "finalize">>
Steps(h) == IF h # <<>> /\ h[Len(h)] = "delete" THEN SubSeq(h, 1, Len(h) - 1) ELSE h
InOrder(h) == Len(h) <= Len(StepOrder) /\ h = SubSeq(StepOrder, 1, Len(h))
TentativeInsert ==
  \A r \in VoiceReqs :
    (pc[r] = "received" /\ pc'[r] # "received") =>
      /\ hist'[r] = <<"insert">>
      /\ ~Exists(db, Val(req'[r].report_id))
      /\ Exists(db', Val(req'[r].report_id))
      /\ LET row == db'[Val(req'[r].report_id)] IN
           /\ row.status = "draft"
           /\ row.report_type = "voice"
           /\ row.content = <<>>
           /\ ~row.is_transcribed
StepsInOrder ==
  /\ \A r \in VoiceReqs : InOrder(Steps(hist[r]))
  /\ \A f \in files : \E r \in VoiceReqs :
       /\ Started(r)
       /\ ReportOf(r) = f.path.report_id
       /\ Contains(hist[r], "store")
  /\ \A r \in VoiceReqs :
       /\ pc[r] \in {"validated", "stored", "transcribed", "committed", "finalized"}
            => Contains(hist[r], "validate")
       /\ pc[r] \in {"transcribed", "committed", "finalized"}
            => FilesOf(ReportOf(r)) # {} \/ ops > 0
       /\ (Started(r) /\ Exists(db, ReportOf(r)) /\ db[ReportOf(r)].is_transcribed)
            => Contains(hist[r], "transcribe")
C10_PipelineOrder ==
  /\ []StepsInOrder
  /\ [][TentativeInsert]_vars
C10_Witness ==
  \E r \in VoiceReqs :
    /\ pc[r] = "finalized"
    /\ hist[r] = StepOrder

\* C11: two calls of the voice pipeline, with the same upload or not, one
\* after the other or interleaved, get two different report ids and write
\* two different files: the row a call inserts is a new one, every store
\* adds a file, and no two rows name the same file.
Stores == { r \in DOMAIN pc : Contains(hist[r], "store") }
NewRowPerCall ==
  \A r \in DOMAIN pc :
    (pc[r] = "received" /\ pc'[r] # "received") =>
      /\ ~Exists(db, Val(req'[r].report_id))
      /\ DOMAIN db' = DOMAIN db \cup {Val(req'[r].report_id)}
      /\ \A id \in DOMAIN db : db'[id] = db[id]
DistinctResults ==
  /\ \A r1, r2 \in DOMAIN pc :
       (r1 # r2 /\ Started(r1) /\ Started(r2)) => ReportOf(r1) # ReportOf(r2)
  /\ Cardinality(files) = Cardinality(Stores)
  /\ \A r \in Stores : FilesOf(ReportOf(r)) # {}
  /\ \A f1, f2 \in files : f1.path = f2.path => f1 = f2
  /\ \A id1, id2 \in DOMAIN db :
       (id1 # id2 /\ IsSet(db[id1].audio_file_path))
         => db[id1].audio_file_path # db[id2].audio_file_path
C11_TwoCallsTwoReports ==
  /\ []DistinctResults
  /\ [][NewRowPerCall]_vars
C11_Witness ==
  /\ pc[1] = "stored" /\ pc[2] = "stored"
  /\ req[1].file = req[2].file
  /\ req[1].user = req[2].user
  /\ Cardinality(files) = 2
  /\ Cardinality(DOMAIN db) = 2

\* C12: no step of the pipeline is retried: a request performs each step
\* at most once and writes at most one file, a step that raises puts the
\* request into its except block, from where it only ends, and an ended
\* request does nothing more.
Count(h, e) == Cardinality({ i \in 1..Len(h) : h[i] = e })
EachStepOnce ==
  \A r \in VoiceReqs :
    /\ \A e \in {"insert", "validate", "store", "transcribe", "finalize", "delete"} :
         Count(hist[r], e) <= 1
    /\ Started(r) => Cardinality(FilesOf(ReportOf(r))) <= 1
FailureIsTerminal ==
  \A r \in VoiceReqs :
    /\ (hist'[r] # hist[r] /\ pc[r] # "failed" /\ IsSet(req'[r].error))
         => pc'[r] = "failed"
    /\ pc[r] = "failed" => pc'[r] \in {"failed", "compensated", "aborted"}
    /\ Ended(r) => (pc'[r] = pc[r] /\ hist'[r] = hist[r] /\ resp'[r] = resp[r])
C12_NoRetry ==
  /\ []EachStepOnce
  /\ [][FailureIsTerminal]_vars
C12_Witness ==
  \E r \in VoiceReqs :
    /\ pc[r] = "compensated"
    /\ hist[r] = <<"insert", "validate", "store", "transcribe", "delete">>
    /\ Answer(r).cause = "TranscriptionFailed"

\* C13: after the engine failed on a stored file, the file is still on
\* storage and no row names it: the except block deletes the row only and
\* leaves the upload directory as it was.
OrphanAfterEngineError ==
  \A r \in VoiceReqs :
    EndedBy(r, {"TranscriptionFailed"}) =>
      \E f \in FilesOf(ReportOf(r)) :
        /\ f.complete
        /\ \A id \in DOMAIN db : db[id].audio_file_path # Some(f.path)
ExceptKeepsStorage ==
  \A r \in VoiceReqs :
    (pc[r] = "failed" /\ pc'[r] # "failed") => files' = files
C13_OrphanFile ==
  /\ []OrphanAfterEngineError
  /\ [][ExceptKeepsStorage]_vars
C13_Witness ==
  \E r \in VoiceReqs :
    /\ EndedBy(r, {"TranscriptionFailed"})
    /\ db = <<>>
    /\ \E f \in files : f.path.report_id = ReportOf(r) /\ f.size > CHUNK_SIZE

\* the step is the request op answered with status_code
Answered(op, status_code) ==
  /\ ops' = ops + 1
  /\ IsSet(last')
  /\ Val(last').op = op
  /\ Val(last').status_code = status_code

\* C14: after every delete_report that succeeds on a report with an audio
\* file path, neither the row nor the file exists, also when the removal
\* of the file failed or the file was missing.
DeleteCascades ==
  Answered("delete", HTTP_200) =>
    LET id == Val(last').id IN
      /\ ~Exists(db', id)
      /\ IsSet(db[id].audio_file_path) =>
           \A f \in files' : f.path # Val(db[id].audio_file_path)
C14_DeleteCascades == [][DeleteCascades]_vars

\* C15: a user who is neither the owner of a report nor an admin gets 403
\* from get_report, update_report and delete_report, and the row and its
\* audio file stay as they are.
Stranger(user, row) == row.nurse_id # user /\ ~is_admin(user)
StrangersRefused ==
  \A op \in {"get", "update", "delete"} :
    (/\ ops' = ops + 1
     /\ IsSet(last')
     /\ Val(last').op = op
     /\ Exists(db, Val(last').id)
     /\ Stranger(Val(last').user, db[Val(last').id]))
      => /\ Val(last').status_code = HTTP_403
         /\ db' = db
         /\ files' = files
C15_OwnerOrAdminOnly == [][StrangersRefused]_vars

\* C16: the status of a report never moves backward in the order DRAFT,
\* FINAL, REVIEWED, ARCHIVED.
Rank(st) ==
  CASE st = "draft" -> 0
    [] st = "final" -> 1
    [] st = "reviewed" -> 2
    [] st = "archived" -> 3
StatusForward ==
  \A id \in DOMAIN db \cap DOMAIN db' :
    Rank(db'[id].status) >= Rank(db[id].status)
C16_NoBackwardStatus == [][StatusForward]_vars

\* C17: reviewed_by_id and reviewed_at are both unset or both set; a step
\* that changes one of them is mark_as_reviewed, which sets both and puts
\* the status to REVIEWED; update_report and the voice pipeline leave them
\* as they are.
ReviewFields(row) == <<row.reviewed_by_id, row.reviewed_at>>
ReviewedTogether ==
  \A id \in DOMAIN db :
    IsSet(db[id].reviewed_by_id) <=> IsSet(db[id].reviewed_at)
OnlyReviewSetsThem ==
  \A id \in DOMAIN db \cap DOMAIN db' :
    ReviewFields(db'[id]) # ReviewFields(db[id]) =>
      /\ db'[id].status = "reviewed"
      /\ IsSet(db'[id].reviewed_by_id) /\ IsSet(db'[id].reviewed_at)
      /\ \E reviewer_id \in Users, now \in Times :
           db'[id] = mark_as_reviewed(db[id], reviewer_id, now)
      /\ last' = last
      /\ pc' = pc
C17_ReviewFieldsOnlyOnReview ==
  /\ []ReviewedTogether
  /\ [][OnlyReviewSetsThem]_vars
C17_Witness ==
  \E r \in VoiceReqs :
    /\ pc[r] = "finalized"
    /\ Exists(db, ReportOf(r))
    /\ IsSet(db[ReportOf(r)].reviewed_by_id)
    /\ db[ReportOf(r)].status = "draft"
    /\ IsSet(last) /\ Val(last).op = "update"

\* C18: the owner of a report is immutable: no step changes nurse_id of a
\* row once it was created, and a row a voice request still works on
\* belongs to the user of that request.
OwnerKept ==
  \A id \in DOMAIN db \cap DOMAIN db' : db'[id].nurse_id = db[id].nurse_id
OwnerIsCreator ==
  \A r \in VoiceReqs :
    (Started(r) /\ IsSet(req[r].user) /\ Exists(db, ReportOf(r)))
      => db[ReportOf(r)].nurse_id = Val(req[r].user)
C18_OwnerImmutable ==
  /\ []OwnerIsCreator
  /\ [][OwnerKept]_vars
C18_Witness ==
  \E id \in DOMAIN db :
    /\ db[id].is_transcribed
    /\ db[id].status = "reviewed"
    /\ IsSet(last)
    /\ Val(last) = Outcome("update", "admin", id, HTTP_200)
    /\ db[id].nurse_id = "nurse1"
    /\ db[id].reviewed_by_id = Some("nurse2")

\* the call of fn has returned
Called(fn) == IsSet(call) /\ Val(call).fn = fn /\ Val(call).done
Raises(out, kind) == IsSet(out) /\ Val(out).kind = kind
\* two texts that differ in the case of their letters only
EqualsIgnoreCase(a, b) ==
  /\ Len(a) = Len(b)
  /\ \A i \in 1..Len(a) :
       a[i] = b[i] \/ \E k \in 1..Len(UPPER) : {a[i], b[i]} = {UPPER[k], LOWER[k]}
\* the name has a dot and the text after its last dot is an allowed format
HasAllowedExtension(name) ==
  \E i \in 1..Len(name) :
    /\ name[i] = "."
    /\ \A j \in (i+1)..Len(name) : name[j] # "."
    /\ \E e \in AllowedSeqs : EqualsIgnoreCase(SubSeq(name, i + 1, Len(name)), e)

\* C19: validate passes the format check exactly when the text after the
\* last dot of the file name is, whatever its case, one of wav, mp3, m4a,
\* ogg, webm, flac; every other name, one without an extension included,
\* fails with InvalidFormat.
C19_ExtensionCheck ==
  Called("validate_audio_file") =>
    (Raises(Val(call).out, "InvalidFormat")
       <=> ~HasAllowedExtension(Val(call).arg.filename))

SizeOnRow(file) ==
  LET info == save_audio_file(file, 1, 0, None).file_info
      text == [text |-> <<>>, segments |-> <<>>]
  IN FinalizedRow(TentativeRow("nurse1"),
                  VoiceResult(info, transcribe_audio(text))).audio_size
C21_ChunkedSave ==
  (IsSet(call) /\ Val(call).fn = "save_audio_file") =>
    LET c == Val(call) IN
      /\ c.chunk <= CHUNK_SIZE
      /\ c.file_size = c.written
      /\ c.at = "read" => c.written + c.remaining = c.arg.data
      /\ c.at = "write" =>
           (c.chunk > 0 /\ c.written + c.chunk + c.remaining = c.arg.data)
      /\ c.at = "return" => (c.chunk = 0 /\ c.remaining = 0)
      /\ c.done =>
           /\ Val(c.out).file_size = c.arg.data
           /\ c.written = c.arg.data
           /\ SizeOnRow(c.arg) = Some(Val(c.out).file_size)
C21_Witness ==
  /\ Called("save_audio_file")
  /\ Val(call).arg.data = 5 * CHUNK_SIZE + 1
  /\ Val(Val(call).out).file_size = 5 * CHUNK_SIZE + 1

\* the segments of an engine result all carry a no_speech_prob
AllProbsGiven(segments) ==
  \A i \in 1..Len(segments) : IsSet(segments[i].no_speech_prob)
RECURSIVE ProbSum(_)
ProbSum(segments) ==
  IF segments = <<>> THEN 0
  ELSE Val(Head(segments).no_speech_prob) + ProbSum(Tail(segments))
Abs(x) == IF x < 0 THEN 0 - x ELSE x
SegmentsOf(probs) ==
  [i \in 1..Len(probs) |-> [no_speech_prob |-> Some(probs[i]), end |-> 250]]
\* C22 as stated: the confidence of the local engine is exactly 1 minus the
\* mean of no_speech_prob over the segments, 0.8 without segments, and 0.8
\* for the segments 0.1 and 0.3.
C22_ExactMean ==
  (Called("transcribe_audio") /\ AllProbsGiven(Val(call).arg.segments)) =>
    LET segments == Val(call).arg.segments
        n == Len(segments)
        confidence == Val(Val(call).out).confidence
    IN /\ n = 0 => confidence = 80
       /\ n > 0 => confidence * n = 100 * n - ProbSum(segments)
       /\ segments = SegmentsOf(<<10, 30>>) => confidence = 80
\* C22 amended: the confidence is 1 minus the mean of no_speech_prob rounded
\* to two decimals (the hundredth nearest to it), 0.8 without segments, and
\* 0.8 for the segments 0.1 and 0.3.
C22_RoundedMean ==
  (Called("transcribe_audio") /\ AllProbsGiven(Val(call).arg.segments)) =>
    LET segments == Val(call).arg.segments
        n == Len(segments)
        confidence == Val(Val(call).out).confidence
    IN /\ n = 0 => confidence = 80
       /\ n > 0 => 2 * Abs(confidence * n - (100 * n - ProbSum(segments))) <= n
       /\ segments = SegmentsOf(<<10, 30>>) => confidence = 80
C22_Witness ==
  /\ Called("transcribe_audio")
  /\ Val(call).arg.segments = SegmentsOf(<<10, 30>>)
  /\ Val(Val(call).out).confidence = 80

\* C23: whatever the engine raised, in the model call or while its result
\* was read, transcribe_audio fails with the one error TranscriptionFailed
\* (500), and the failing step writes no row: the table is as it was, and
\* the request has made no update of its row before.
EngineFailure(r) == pc[r] = "stored" /\ pc'[r] = "failed"
FailsAsTranscriptionFailed ==
  \A r \in VoiceReqs :
    EngineFailure(r) =>
      /\ req'[r].error = Some([status_code |-> HTTP_500, kind |-> "TranscriptionFailed"])
      /\ db' = db
      /\ ~Contains(hist'[r], "finalize")
NoRowWrittenAtFailure ==
  \A r \in VoiceReqs :
    (pc[r] = "failed" /\ IsSet(req[r].error)
       /\ Val(req[r].error).kind = "TranscriptionFailed") =>
      \A id \in DOMAIN db :
        (id = ReportOf(r) /\ db[id].report_type = "voice") =>
          ResultFields(db[id]) = ResultFields(TentativeRow(db[id].nurse_id))
C23_TranscriptionFailed ==
  /\ []NoRowWrittenAtFailure
  /\ [][FailsAsTranscriptionFailed]_vars
C23_Witness ==
  \E r \in VoiceReqs :
    /\ pc[r] = "failed"
    /\ req[r].error = Some([status_code |-> HTTP_500, kind |-> "TranscriptionFailed"])
    /\ Exists(db, ReportOf(r))
    /\ ResultFields(db[ReportOf(r)]) = ResultFields(TentativeRow("nurse1"))

\* C24: no two users share an email or an employee code, and a register
\* request that ends while its email or its employee code is taken is
\* answered 400 and adds no user.
UniqueUsers ==
  \A i, j \in 1..Len(users) :
    i # j => /\ users[i].email # users[j].email
             /\ users[i].employee_code # users[j].employee_code
TakenIsRefused ==
  \A i \in DOMAIN reg :
    (reg[i].at # "done" /\ reg'[i].at = "done"
       /\ UniqueViolation(users, reg[i].user_data)) =>
      /\ reg'[i].answer = Some(HTTP_400)
      /\ users' = users
C24_UniqueRegistration ==
  /\ []UniqueUsers
  /\ [][TakenIsRefused]_vars

\* C25: the estimate of a text of fewer than 10 characters, the empty one
\* included, is 0.5; of any other text it is the mean of min(len/100, 1)
\* and min(words/20, 1), raised to 0.70 when below and cut to 0.98 when
\* above; a text of 100 characters in 20 words gets 0.98.
SpaceCount(text) == Cardinality({ i \in 1..Len(text) : text[i] = " " })
C25_RemoteEstimate ==
  Called("estimate") =>
    LET text == Val(call).arg
        words == IF text = <<>> THEN 0 ELSE SpaceCount(text) + 1
        twice == Min(Len(text), 100) * 10 + Min(words, 20) * 50
        confidence == Val(Val(call).out)
    IN /\ Len(text) < 10 => confidence = 500
       /\ Len(text) >= 10 =>
            /\ confidence >= 700 /\ confidence <= 980
            /\ (twice >= 1400 /\ twice <= 1960) => 2 * confidence = twice
            /\ twice < 1400 => confidence = 700
            /\ twice > 1960 => confidence = 980
       /\ (Len(text) = 100 /\ words = 20) => confidence = 980
C25_Witness ==
  /\ Called("estimate")
  /\ Len(Val(call).arg) = 100
  /\ SpaceCount(Val(call).arg) = 19
  /\ Val(Val(call).out) = 980

\* C26: a voice request that has inserted its tentative row ends, and it
\* ends either finalized, its row present and transcribed, or compensated,
\* its row absent; it ends in no other state.
Finalized(r) ==
  /\ pc[r] = "finalized"
  /\ Exists(db, ReportOf(r))
  /\ db[ReportOf(r)].is_transcribed
Compensated(r) ==
  /\ pc[r] = "compensated"
  /\ ~Exists(db, ReportOf(r))
EndsFinalizedOrCompensated ==
  \A r \in VoiceReqs : Ended(r) => (Finalized(r) \/ Compensated(r))
C26_FinalizedOrCompensated ==
  /\ \A r \in VoiceReqs : Started(r) ~> Ended(r)
  /\ []EndsFinalizedOrCompensated

\* C27: the name of a stored file is made of the report id, the time and
\* the extension of the upload, so two requests, having different report
\* ids, get different paths also when they save in the same second, and no
\* two rows carry the same audio_file_path.
Saved == { r \in DOMAIN pc : Started(r) /\ IsSet(req[r].file_info) }
PathOf(r) == Val(req[r].file_info).file_path
NamedByReport ==
  \A r \in Saved :
    /\ PathOf(r).report_id = ReportOf(r)
    /\ PathOf(r).timestamp \in Times
    /\ PathOf(r).ext = file_extension(Val(req[r].file).filename)
C27_UniqueFileNames ==
  /\ NamedByReport
  /\ \A r1, r2 \in Saved : r1 # r2 => PathOf(r1) # PathOf(r2)
  /\ \A id1, id2 \in DOMAIN db :
       (id1 # id2 /\ IsSet(db[id1].audio_file_path) /\ IsSet(db[id2].audio_file_path))
         => db[id1].audio_file_path # db[id2].audio_file_path
C27_Witness ==
  /\ DOMAIN db = {1, 2}
  /\ IsSet(db[1].audio_file_path) /\ IsSet(db[2].audio_file_path)
  /\ Val(db[1].audio_file_path).timestamp = Val(db[2].audio_file_path).timestamp
  /\ Val(db[1].audio_file_path).ext = Val(db[2].audio_file_path).ext
  /\ Val(db[1].audio_file_path) # Val(db[2].audio_file_path)

\* C28: get_current_user lets a token through only if its type is access
\* and answers a refresh token with 401; refresh_token issues new tokens
\* only for a token of type refresh and answers an access token with 401
\* and without tokens.
Presented == Val(call).arg
Verdict == Val(Val(call).out)
C28_TokenTypesApart ==
  /\ Called("get_current_user") =>
       /\ IsSet(Verdict.user) => Presented.type = Some("access")
       /\ Presented.type = Some("refresh") =>
            (Verdict.status_code = HTTP_401 /\ ~IsSet(Verdict.user))
  /\ Called("refresh_token") =>
       /\ IsSet(Verdict.tokens) => Presented.type = Some("refresh")
       /\ Presented.type = Some("access") =>
            (Verdict.status_code = HTTP_401 /\ ~IsSet(Verdict.tokens))
       /\ IsSet(Verdict.tokens) =>
            /\ Val(Verdict.tokens).access_token.type = Some("access")
            /\ Val(Verdict.tokens).refresh_token.type = Some("refresh")
C28_Witness ==
  /\ Called("get_current_user")
  /\ Presented = create_refresh_token([sub |-> Some("nurse1")], 90)
  /\ refresh_token(Presented, Now).status_code = HTTP_200
  /\ Verdict.status_code = HTTP_401

\* C29: a voice request is answered with an error exactly when no row it
\* created is left in the table, whatever the transcribed text, the empty
\* one included.
ErrorResponse(r) == endpoint_answer(Answer(r)).status_code >= 400
C29_ErrorIffNoRow ==
  \A r \in VoiceReqs :
    Ended(r) => (ErrorResponse(r) <=> ~Exists(db, ReportOf(r)))

\* C30: no finalized voice report has an audio_size over the maximum upload
\* size of 10 MiB, whatever size its upload declared, none and 0 included.
C30_SizeWithinMaximum ==
  \A id \in DOMAIN db :
    (db[id].report_type = "voice" /\ db[id].is_transcribed /\ IsSet(db[id].audio_size))
      => Val(db[id].audio_size) <= MAX_UPLOAD_SIZE

====
